---- MODULE Spec2Model ----
(***************************************************************************)
(* NotebookLM FoldNest - sync module (src/sync.js).                        *)
(*                                                                         *)
(* The module is single-threaded JavaScript: an async function runs        *)
(* without interruption until it awaits real I/O (chrome.storage, the      *)
(* token broker, fetch).  Every action below is one such run: it resumes a *)
(* task from the await it is suspended at and carries it to its next       *)
(* await, through every return and call in between.                        *)
(*                                                                         *)
(* The whole state is gathered in one record S; the procedures of sync.js  *)
(* are operators from a state record to a state record, and an action      *)
(* assigns the result to the primed variables.                             *)
(*                                                                         *)
(* chrome.storage writes take effect when they are issued, reads return    *)
(* the value held when the task resumes.  A fetch acts on the remote store *)
(* when its response is delivered.  response.json() is part of the fetch.  *)
(***************************************************************************)
EXTENDS Integers, Sequences, FiniteSets, TLC

(* ---------------------------------------------------------------- bounds *)
T0 == 10000          \* Date.now() when the page loads
MaxNow == 15000      \* the clock stops here
MaxEdits == 1        \* local mutations by the document owner
MaxEnq == 2          \* going offline stops after this many enqueues
MaxTrig == 3         \* calls of triggerUpload

(* ------------------------------------------------------------- constants *)
SYNC_DEBOUNCE_MS == 2000
SYNC_COOLDOWN_MS == 5000
\* updateSyncStatus: the delay of the success auto-clear, the period of the
\* poller that clears offline
STATUS_CLEAR_MS == 3000
ONLINE_POLL_MS == 5000

\* the clock's resolution where timers run
Step == SYNC_DEBOUNCE_MS \div 2

Types == {"dashboard", "notebook"}
NoToken == "null"
Token == "token"
NoDoc == [payload |-> 0, lm |-> 0]       \* undefined: no stored document
NoFire == [kind |-> "none", over |-> "none"]
NoReq == [task |-> "none", nfetch |-> 0, nrevoke |-> 0, nretry |-> 0, n401 |-> 0,
          gone |-> FALSE, ok |-> TRUE]
Doc(p, t) == [payload |-> p, lm |-> t]   \* lm is _syncMeta.lastModified (0: no envelope)

VARIABLES
    syncSettings,       \* {enabled, lastSyncTime, autoSync}
    storedSettings,     \* chrome.storage.local[SYNC_STORAGE_KEY]
    isSyncing,
    lastSyncAttempt,
    cachedToken,
    isOnline,
    offlineQueue,
    storedQueue,        \* chrome.storage.local[OFFLINE_QUEUE_KEY]
    currentSyncStatus,
    ctxValid,           \* chrome.runtime.id != null
    now,                \* Date.now()
    local,              \* chrome.storage.local: the dashboard and the notebook record
    remote,             \* Drive appDataFolder: the files of each name, oldest first
    onNotebook,         \* location.pathname matches /notebook/<id>
    api,                \* window.NotebookLMFoldNest: "none", "noApply", "apply"
    tasks,              \* the async invocations in flight
    edits,              \* number of local mutations so far
    lastEnq,            \* history: the state passed to the latest enqueue of each type
    replayCount,        \* history: per enqueued entry, the uploadState calls replay made for it
    offlineRequest,     \* history: a request left the page while isOnline = false
    lastUpload,         \* history: the latest successful uploadFile
    synced,             \* history: types uploaded by uploadState and not mutated since
    timers,             \* the pending timeouts of triggerUpload (syncDebounceTimer)
    trigCalls,          \* history: the triggerUpload calls that armed a timer
    timerCalls,         \* history: the uploadState calls made by the timer
    lastReq,            \* history: the authenticated request that ended in the latest step
    lastPassed,         \* history: the latest uploadState that passed its guards
    statusEl,           \* syncStatusEl /= null: the sync button is on the page
    clears,             \* the pending auto-clears of updateSyncStatus
    fired               \* history: the auto-clear that ran in the latest step

vars == <<syncSettings, storedSettings, isSyncing, lastSyncAttempt, cachedToken,
          isOnline, offlineQueue, storedQueue, currentSyncStatus, ctxValid, now,
          local, remote, onNotebook, api, tasks, edits, lastEnq,
          replayCount, offlineRequest, lastUpload, synced,
          timers, trigCalls, timerCalls, lastReq, lastPassed,
          statusEl, clears, fired>>

S == [syncSettings |-> syncSettings, storedSettings |-> storedSettings,
      isSyncing |-> isSyncing, lastSyncAttempt |-> lastSyncAttempt,
      cachedToken |-> cachedToken, isOnline |-> isOnline,
      offlineQueue |-> offlineQueue, storedQueue |-> storedQueue,
      currentSyncStatus |-> currentSyncStatus, ctxValid |-> ctxValid, now |-> now,
      local |-> local, remote |-> remote, onNotebook |-> onNotebook, api |-> api,
      tasks |-> tasks, edits |-> edits, lastEnq |-> lastEnq,
      replayCount |-> replayCount, offlineRequest |-> offlineRequest,
      lastUpload |-> lastUpload, synced |-> synced,
      timers |-> timers, trigCalls |-> trigCalls, timerCalls |-> timerCalls,
      \* lastReq speaks of one step only: a step that ends no request clears it
      lastReq |-> NoReq, lastPassed |-> lastPassed,
      statusEl |-> statusEl, clears |-> clears,
      \* fired speaks of one step only, as lastReq does
      fired |-> NoFire]

Set(s) ==
    /\ syncSettings' = s.syncSettings   /\ storedSettings' = s.storedSettings
    /\ isSyncing' = s.isSyncing         /\ lastSyncAttempt' = s.lastSyncAttempt
    /\ cachedToken' = s.cachedToken     /\ isOnline' = s.isOnline
    /\ offlineQueue' = s.offlineQueue   /\ storedQueue' = s.storedQueue
    /\ currentSyncStatus' = s.currentSyncStatus
    /\ ctxValid' = s.ctxValid           /\ now' = s.now
    /\ local' = s.local                 /\ remote' = s.remote
    /\ onNotebook' = s.onNotebook       /\ api' = s.api
    /\ tasks' = s.tasks                 /\ edits' = s.edits
    /\ lastEnq' = s.lastEnq             /\ replayCount' = s.replayCount
    /\ offlineRequest' = s.offlineRequest
    /\ lastUpload' = s.lastUpload       /\ synced' = s.synced
    /\ timers' = s.timers               /\ trigCalls' = s.trigCalls
    /\ timerCalls' = s.timerCalls       /\ lastReq' = s.lastReq
    /\ lastPassed' = s.lastPassed
    /\ statusEl' = s.statusEl           /\ clears' = s.clears
    /\ fired' = s.fired

(* ------------------------------------------------------------------ tasks *)
(* proc: the entry point; pc: where that function is suspended; sub: where  *)
(* the uploadState / downloadState it called is suspended; net: where the   *)
(* makeAuthenticatedRequest that one called is suspended.                   *)
PassTasks == {"p1", "p2"}
UploadTasks == {"u1"}
QueueTasks == {"q1", "q2"}
TimerTasks == {"w1", "w2"}
EnableTasks == {"e1"}
DisableTasks == {"d1"}
DownloadTasks == {"g1"}
TaskIds == PassTasks \cup UploadTasks \cup QueueTasks \cup TimerTasks
           \cup EnableTasks \cup DisableTasks \cup DownloadTasks

IdleTask ==
    [proc |-> "none", pc |-> "idle", sub |-> "none", typ |-> "dashboard",
     net |-> "none", retry |-> FALSE,
     ustate |-> NoDoc, unow |-> 0, ufile |-> 0, stamp |-> 0, dfile |-> 0,
     rv |-> "none", rdoc |-> NoDoc,
     dRemote |-> NoDoc, dLocal |-> NoDoc, nRemote |-> NoDoc, nLocal |-> NoDoc,
     q |-> <<>>, snap |-> <<>>, successCount |-> 0,
     \* history of the invocation
     applied |-> {}, ups |-> {}, upOk |-> {}, ufailed |-> FALSE, aborted |-> FALSE,
     netFail |-> FALSE, dirty |-> {}, sawSynced |-> {}, failedOps |-> {},
     reloaded |-> FALSE,
     \* history of the request in progress
     nfetch |-> 0, nrevoke |-> 0, nretry |-> 0, n401 |-> 0, interactive |-> FALSE,
     tokenGone |-> FALSE,
     \* history of the invocation, continued
     sentDisabled |-> FALSE, skipped |-> {}, tokenOk |-> FALSE,
     passRv |-> "none", enabled0 |-> FALSE, tried |-> {}, applyOk |-> FALSE,
     handed |-> {}]

T(s, t) == s.tasks[t]
Active(t) == tasks[t].pc \notin {"idle", "done"}

(* ------------------------------------------------------ status, settings *)
\* lines 990-1043: without the status element nothing after line 993 runs
updateSyncStatus(s, status) ==
    IF ~s.statusEl
    THEN [s EXCEPT !.currentSyncStatus = status]
    ELSE [s EXCEPT !.currentSyncStatus = status,
                   !.clears = IF status = "success"
                              THEN @ \cup {[kind |-> "success",
                                            due |-> s.now + STATUS_CLEAR_MS]}
                              ELSE IF status = "offline"
                              THEN @ \cup {[kind |-> "offline",
                                            due |-> s.now + ONLINE_POLL_MS]}
                              ELSE @]

\* lines 1027-1031: the timeout armed by status success runs
SuccessClear(s, tm) ==
    LET s0 == [s EXCEPT !.clears = @ \ {tm}]
    IN  IF s.currentSyncStatus = "success"
        THEN updateSyncStatus([s0 EXCEPT !.fired = [kind |-> "success",
                                                    over |-> s.currentSyncStatus]],
                              "idle")
        ELSE [s0 EXCEPT !.fired = [kind |-> "success", over |-> "none"]]

\* lines 1036-1041: the interval armed by status offline runs; navigator.onLine
\* is what the online and offline events report
OnlinePoll(s, tm) ==
    IF s.isOnline
    THEN updateSyncStatus([s EXCEPT !.clears = @ \ {tm},
                                    !.fired = [kind |-> "offline",
                                               over |-> s.currentSyncStatus]],
                          "idle")
    ELSE [s EXCEPT !.clears = (@ \ {tm})
                       \cup {[kind |-> "offline", due |-> tm.due + ONLINE_POLL_MS]},
                   !.fired = [kind |-> "offline", over |-> "none"]]

saveSyncSettings(s) ==
    IF s.ctxValid THEN [s EXCEPT !.storedSettings = s.syncSettings] ELSE s

(* ----------------------------------------------------------- offline queue *)
saveOfflineQueue(s) == [s EXCEPT !.storedQueue = s.offlineQueue]

\* queueOfflineOperation without the filter that drops the type's old entry
queueOfflineOperationNoFilter(s, type, state) ==
    LET op == [type |-> type, state |-> state, timestamp |-> s.now,
               id |-> Len(s.replayCount) + 1]
    IN  saveOfflineQueue([s EXCEPT !.offlineQueue = Append(@, op),
                                   !.replayCount = Append(@, 0),
                                   !.lastEnq[type] = state])

\* the synchronous part of queueOfflineOperation, up to its await
queueOfflineOperation(s, type, state) ==
    LET kept == SelectSeq(s.offlineQueue, LAMBDA op : op.type /= type)
        \* id: history, the entry's place in the order of all enqueues
        op == [type |-> type, state |-> state, timestamp |-> s.now,
               id |-> Len(s.replayCount) + 1]
    IN  saveOfflineQueue([s EXCEPT !.offlineQueue = Append(kept, op),
                                   !.replayCount = Append(@, 0),
                                   !.lastEnq[type] = state])

(* ------------------------------------------------------------ remote store *)
\* data.files[0] of the files.list answer: 0 when there is no file of the name
FirstFile(s, type) == IF Len(s.remote[type]) > 0 THEN 1 ELSE 0

\* the multipart upload: PATCH of the file found, POST of a new file otherwise
StoreFile(s, type, fileId, content) ==
    IF fileId /= 0
    THEN [s EXCEPT !.remote[type][fileId] = content]
    ELSE [s EXCEPT !.remote[type] = Append(@, content)]

\* contentWithMeta: the caller's state under a new _syncMeta envelope
contentWithMeta(content, time) == [content EXCEPT !.lm = time]

(* ------------------------------------------------- authenticated requests *)
\* history: a message to the broker or a fetch leaves the page
Issue(s) == [s EXCEPT !.offlineRequest = @ \/ ~s.isOnline]

\* the fetch of line 321 goes out
SendFetch(s, t) ==
    Issue([s EXCEPT !.tasks[t].net = "fetch",
                    !.tasks[t].nfetch = @ + 1,
                    !.tasks[t].sentDisabled =
                        @ \/ (T(s, t).sub = "U_upload" /\ ~s.syncSettings.enabled)])

\* makeAuthenticatedRequest with a getAuthToken that never looks at the cache
makeAuthenticatedRequestNoCache(s, t, isRetry) ==
    LET s0 == IF isRetry
              THEN [s EXCEPT !.tasks[t].retry = TRUE, !.tasks[t].nretry = @ + 1]
              ELSE [s EXCEPT !.tasks[t].retry = FALSE, !.tasks[t].nfetch = 0,
                             !.tasks[t].nrevoke = 0, !.tasks[t].nretry = 0,
                             !.tasks[t].n401 = 0, !.tasks[t].tokenGone = FALSE]
    IN  Issue([s0 EXCEPT !.tasks[t].net = "token",
                         !.tasks[t].interactive = isRetry])

\* makeAuthenticatedRequest up to its first await: getAuthToken(isRetry)
\* answers from the cache, and the fetch goes out, or asks the broker
makeAuthenticatedRequest(s, t, isRetry) ==
    LET s0 == IF isRetry
              THEN [s EXCEPT !.tasks[t].retry = TRUE, !.tasks[t].nretry = @ + 1]
              ELSE [s EXCEPT !.tasks[t].retry = FALSE, !.tasks[t].nfetch = 0,
                             !.tasks[t].nrevoke = 0, !.tasks[t].nretry = 0,
                             !.tasks[t].n401 = 0, !.tasks[t].tokenGone = FALSE]
    IN  \* getAuthToken(isRetry): the cache answers unless interactive
        IF s0.cachedToken /= NoToken /\ ~isRetry
        THEN SendFetch(s0, t)
        ELSE Issue([s0 EXCEPT !.tasks[t].net = "token",
                              !.tasks[t].interactive = isRetry])

\* Return with the flag cleared on the guard returns too
ReturnClearing(s, t, rv, rdoc) ==
    [s EXCEPT !.tasks[t].sub = "ret", !.tasks[t].rv = rv, !.tasks[t].rdoc = rdoc,
              !.tasks[t].net = "none", !.tasks[t].retry = FALSE,
              !.tasks[t].ustate = NoDoc, !.tasks[t].unow = 0, !.tasks[t].ufile = 0,
              !.tasks[t].stamp = 0, !.tasks[t].dfile = 0,
              !.isSyncing = FALSE]

\* the function returns to its caller: uploadState / downloadState are left
Return(s, t, rv, rdoc) ==
    [s EXCEPT !.tasks[t].sub = "ret", !.tasks[t].rv = rv, !.tasks[t].rdoc = rdoc,
              !.tasks[t].net = "none", !.tasks[t].retry = FALSE,
              !.tasks[t].ustate = NoDoc, !.tasks[t].unow = 0, !.tasks[t].ufile = 0,
              !.tasks[t].stamp = 0, !.tasks[t].dfile = 0]

\* a return from inside the try block: the finally clause clears the flag
\* the flag reset at the end of the try block instead of in a finally block
ReturnResetOnSuccess(s, t, rv, rdoc) ==
    Return([s EXCEPT !.isSyncing = @ /\ rv \notin {"true", "data"}], t, rv, rdoc)

ReturnFinally(s, t, rv, rdoc) == Return([s EXCEPT !.isSyncing = FALSE], t, rv, rdoc)

(* ------------------------------------------------------ the owning layer *)
\* window.NotebookLMFoldNest.getState(): the notebook tree of content.js
ApiGetState(s) == s.local["notebook"]

\* window.NotebookLMFoldNest.applyState(data, type) answering true: the
\* dashboard layer takes the document over; for a notebook performFullSync
\* writes the record itself right after
ApiApplyState(s, data, type) ==
    IF type = "dashboard" THEN [s EXCEPT !.local["dashboard"] = data] ELSE s

(* ------------------------------------------------------------ uploadState *)
\* lines 531-537: no state, no upload; otherwise findFile goes out
UploadWithState(s, t, state) ==
    IF state = NoDoc
    THEN ReturnFinally(updateSyncStatus(s, "idle"), t, "false", NoDoc)
    ELSE makeAuthenticatedRequest(
             [s EXCEPT !.tasks[t].sub = "U_find", !.tasks[t].ustate = state],
             t, FALSE)

\* lines 499-503: the offline branch once the state is known
QueueWithState(s, t, state) ==
    IF state /= NoDoc
    THEN [queueOfflineOperation(s, T(s, t).typ, state)
             EXCEPT !.tasks[t].sub = "U_offsave"]
    ELSE ReturnFinally(updateSyncStatus(s, "offline"), t, "false", NoDoc)

\* the cooldown test of line 479
CooldownActive(s) == s.now - s.lastSyncAttempt < SYNC_COOLDOWN_MS

\* history: an uploadState passes its guards at s.now
Passed(s) ==
    [s EXCEPT !.lastPassed =
        [at |-> s.now,
         gap |-> IF @.at = 0 THEN -1 ELSE s.now - @.at,
         gapHere |-> IF s.lastSyncAttempt = 0 THEN -1
                     ELSE s.now - s.lastSyncAttempt]]

\* uploadState without the cooldown test of lines 478-482
uploadStateNoCooldown(s, t, type) ==
    IF ~s.syncSettings.enabled \/ s.isSyncing
    THEN Return([s EXCEPT !.tasks[t].typ = type], t, "false", NoDoc)
    ELSE
      LET s1 == updateSyncStatus(
                    [Passed(s) EXCEPT !.isSyncing = TRUE, !.lastSyncAttempt = s.now,
                              !.tasks[t].typ = type, !.tasks[t].unow = s.now,
                              !.tasks[t].ups = @ \cup {type}],
                    "syncing")
      IN  IF ~s1.isOnline
          THEN IF type = "dashboard"
               THEN [s1 EXCEPT !.tasks[t].sub = "U_offget"]
               ELSE QueueWithState(s1, t,
                        IF s1.api /= "none" THEN ApiGetState(s1) ELSE NoDoc)
          ELSE IF type = "dashboard"
               THEN [s1 EXCEPT !.tasks[t].sub = "U_get"]
               ELSE IF s1.api = "none" \/ ~s1.onNotebook
                    THEN ReturnFinally(updateSyncStatus(s1, "idle"), t, "false", NoDoc)
                    ELSE UploadWithState(s1, t, ApiGetState(s1))

\* uploadState with the attempt stamped before the cooldown test
uploadStateStampFirst(s, t, type) ==
    IF ~s.syncSettings.enabled \/ s.isSyncing
    THEN Return([s EXCEPT !.tasks[t].typ = type], t, "false", NoDoc)
    ELSE IF CooldownActive(s)
    THEN Return([s EXCEPT !.tasks[t].typ = type, !.lastSyncAttempt = s.now],
                t, "false", NoDoc)
    ELSE
      LET s1 == updateSyncStatus(
                    [Passed(s) EXCEPT !.isSyncing = TRUE, !.lastSyncAttempt = s.now,
                              !.tasks[t].typ = type, !.tasks[t].unow = s.now,
                              !.tasks[t].ups = @ \cup {type}],
                    "syncing")
      IN  IF ~s1.isOnline
          THEN IF type = "dashboard"
               THEN [s1 EXCEPT !.tasks[t].sub = "U_offget"]
               ELSE QueueWithState(s1, t,
                        IF s1.api /= "none" THEN ApiGetState(s1) ELSE NoDoc)
          ELSE IF type = "dashboard"
               THEN [s1 EXCEPT !.tasks[t].sub = "U_get"]
               ELSE IF s1.api = "none" \/ ~s1.onNotebook
                    THEN ReturnFinally(updateSyncStatus(s1, "idle"), t, "false", NoDoc)
                    ELSE UploadWithState(s1, t, ApiGetState(s1))

\* uploadState(type) from its call to its first await
uploadState(s, t, type) ==
    IF ~s.syncSettings.enabled \/ s.isSyncing
    THEN Return([s EXCEPT !.tasks[t].typ = type], t, "false", NoDoc)
    ELSE IF CooldownActive(s)
    THEN Return([s EXCEPT !.tasks[t].typ = type], t, "false", NoDoc)
    ELSE
      LET s1 == updateSyncStatus(
                    [Passed(s) EXCEPT !.isSyncing = TRUE, !.lastSyncAttempt = s.now,
                              !.tasks[t].typ = type, !.tasks[t].unow = s.now,
                              !.tasks[t].ups = @ \cup {type}],
                    "syncing")
      IN  IF ~s1.isOnline
          THEN IF type = "dashboard"
               THEN [s1 EXCEPT !.tasks[t].sub = "U_offget"]
               ELSE QueueWithState(s1, t,
                        IF s1.api /= "none" THEN ApiGetState(s1) ELSE NoDoc)
          ELSE IF type = "dashboard"
               THEN [s1 EXCEPT !.tasks[t].sub = "U_get"]
               ELSE IF s1.api = "none" \/ ~s1.onNotebook
                    THEN ReturnFinally(updateSyncStatus(s1, "idle"), t, "false", NoDoc)
                    ELSE UploadWithState(s1, t, ApiGetState(s1))

\* uploadFile from its call to its await: the envelope is stamped here
uploadFile(s, t, existingFileId) ==
    makeAuthenticatedRequest(
        [s EXCEPT !.tasks[t].sub = "U_upload", !.tasks[t].ufile = existingFileId,
                  !.tasks[t].stamp = s.now],
        t, FALSE)

\* lines 542-572: after uploadFile has answered
UploadDone(s, t, success) ==
    LET k == T(s, t)
    IN  IF success
        THEN LET s1 == [s EXCEPT !.syncSettings.lastSyncTime = k.unow,
                                 !.tasks[t].upOk = @ \cup {k.typ},
                                 !.synced = @ \cup {k.typ},
                                 !.lastUpload = [type |-> k.typ, from |-> k.ustate,
                                                 lm |-> k.stamp]]
             IN  ReturnFinally(updateSyncStatus(saveSyncSettings(s1), "success"),
                               t, "true", NoDoc)
        ELSE ReturnFinally(updateSyncStatus([s EXCEPT !.tasks[t].ufailed = TRUE],
                                            "error"),
                           t, "false", NoDoc)

\* uploadState resumed from an await on chrome.storage
UploadStorageResumed(s, t) ==
    LET k == T(s, t)
    IN  CASE k.sub = "U_offget" -> QueueWithState(s, t, s.local["dashboard"])
          [] k.sub = "U_offsave" ->
                ReturnFinally(updateSyncStatus(s, "offline"), t, "false", NoDoc)
          [] k.sub = "U_get" -> UploadWithState(s, t, s.local["dashboard"])

(* ---------------------------------------------------------- downloadState *)
\* downloadState(type) from its call to its first await
downloadState(s, t, type) ==
    IF ~s.syncSettings.enabled \/ s.isSyncing
    THEN Return([s EXCEPT !.tasks[t].typ = type, !.tasks[t].skipped = @ \cup {type},
                          !.tasks[t].tried = @ \cup {type}],
                t, "null", NoDoc)
    ELSE
      LET s1 == updateSyncStatus(
                    [s EXCEPT !.isSyncing = TRUE, !.tasks[t].typ = type,
                              !.tasks[t].tried = @ \cup {type}], "syncing")
      IN  IF ~s1.isOnline
          THEN ReturnFinally(updateSyncStatus(
                                 [s1 EXCEPT !.tasks[t].skipped = @ \cup {type}],
                                 "offline"),
                             t, "null", NoDoc)
          ELSE IF type = "notebook" /\ ~s1.onNotebook
          THEN ReturnFinally(updateSyncStatus(s1, "idle"), t, "null", NoDoc)
          ELSE makeAuthenticatedRequest([s1 EXCEPT !.tasks[t].sub = "D_find"],
                                        t, FALSE)

(* ------------------------------------- findFile, downloadFile, uploadFile *)
\* The request of the library function the task is in has ended: ok is a 2xx
\* answer with a readable body, anything else was thrown and caught by the
\* function (findFile and downloadFile answer null, uploadFile false).
LibraryReturn(s, t, ok) ==
    LET k == T(s, t)
        s0 == [s EXCEPT !.tasks[t].net = "none", !.tasks[t].retry = FALSE,
                        !.tasks[t].netFail = @ \/ ~ok,
                        !.tasks[t].nfetch = 0, !.tasks[t].nrevoke = 0,
                        !.tasks[t].nretry = 0, !.tasks[t].n401 = 0,
                        !.tasks[t].interactive = FALSE, !.tasks[t].tokenGone = FALSE,
                        !.lastReq = [task |-> t, nfetch |-> k.nfetch,
                                     nrevoke |-> k.nrevoke, nretry |-> k.nretry,
                                     n401 |-> k.n401, gone |-> k.tokenGone,
                                     ok |-> ok]]
    IN  CASE k.sub = "U_find" ->
                uploadFile(s0, t, IF ok THEN FirstFile(s0, k.typ) ELSE 0)
          [] k.sub = "U_upload" ->
                UploadDone(IF ok
                           THEN StoreFile(s0, k.typ, k.ufile,
                                          contentWithMeta(k.ustate, k.stamp))
                           ELSE s0,
                           t, ok)
          [] k.sub = "D_find" ->
                IF ok /\ FirstFile(s0, k.typ) /= 0
                THEN makeAuthenticatedRequest(
                         [s0 EXCEPT !.tasks[t].sub = "D_download",
                                    !.tasks[t].dfile = FirstFile(s0, k.typ)],
                         t, FALSE)
                ELSE ReturnFinally(updateSyncStatus(s0, "idle"), t, "null", NoDoc)
          [] k.sub = "D_download" ->
                IF ok
                THEN ReturnFinally(updateSyncStatus(s0, "success"), t, "data",
                                   s0.remote[k.typ][k.dfile])
                ELSE ReturnFinally(updateSyncStatus(s0, "error"), t, "null", NoDoc)

\* getAuthToken's callback: the broker has answered
TokenAnswered(s, t, success) ==
    IF success
    THEN SendFetch([s EXCEPT !.cachedToken = Token, !.tasks[t].interactive = FALSE], t)
    ELSE LibraryReturn([s EXCEPT !.cachedToken = NoToken], t, FALSE)

\* revokeAuthToken up to its await; without a cached token the retry starts
revokeAuthToken(s, t) ==
    IF s.cachedToken /= NoToken
    THEN Issue([s EXCEPT !.tasks[t].net = "revoke", !.tasks[t].nrevoke = @ + 1])
    ELSE makeAuthenticatedRequest(s, t, TRUE)

\* FetchAnswered without the isRetry test of line 330
FetchAnsweredNoLimit(s, t, r) ==
    LET s0 == [s EXCEPT !.tasks[t].n401 = IF r = "401" THEN @ + 1 ELSE @,
                        !.tasks[t].tokenGone =
                            @ \/ (r = "401" /\ s.cachedToken = NoToken)]
    IN  IF r = "401" /\ T(s, t).nfetch < 3
        THEN revokeAuthToken(s0, t)
        ELSE LibraryReturn(s0, t, r = "ok")

\* lines 329-353: the fetch has answered (r: "ok", "401", "403", "fail")
FetchAnswered(s, t, r) ==
    LET s0 == [s EXCEPT !.tasks[t].n401 = IF r = "401" THEN @ + 1 ELSE @,
                        \* history: line 294 finds no token to revoke
                        !.tasks[t].tokenGone =
                            @ \/ (r = "401" /\ ~T(s, t).retry
                                            /\ s.cachedToken = NoToken)]
    IN  IF r = "401" /\ ~T(s, t).retry
        THEN revokeAuthToken(s0, t)
        ELSE LibraryReturn(s0, t, r = "ok")

\* lines 301-333: the revocation has been acknowledged, the retry starts
RevokeAnswered(s, t) ==
    makeAuthenticatedRequest([s EXCEPT !.cachedToken = NoToken], t, TRUE)

(* -------------------------------------------------------- performFullSync *)
\* the function has returned: the invocation stays on record until the
\* task is used again
Done(s, t, rv) ==
    IF T(s, t).proc = "ena"
    THEN \* lines 813-819: enableSync awaited the pass and answers true
         [s EXCEPT !.tasks[t].pc = "done", !.tasks[t].sub = "none",
                   !.tasks[t].passRv = rv, !.tasks[t].rv = "true"]
    ELSE [s EXCEPT !.tasks[t].pc = "done", !.tasks[t].sub = "none", !.tasks[t].rv = rv]

\* lines 746-749
FinishPass(s, t) ==
    Done(updateSyncStatus(
             saveSyncSettings([s EXCEPT !.syncSettings.lastSyncTime = s.now]),
             "success"),
         t, "true")

\* lines 687-690: the notebook document is tracked on a notebook page only
NotebookPart(s, t) ==
    IF s.onNotebook
    THEN downloadState([s EXCEPT !.tasks[t].pc = "P_nb_dl"], t, "notebook")
    ELSE FinishPass(s, t)

\* performFullSync from its call to its first await
performFullSync(s, t) ==
    IF ~s.syncSettings.enabled
    THEN Done(s, t, "false")
    ELSE IF ~s.ctxValid
    THEN Done([s EXCEPT !.tasks[t].aborted = TRUE], t, "false")
    ELSE downloadState(
             updateSyncStatus([s EXCEPT !.tasks[t].pc = "P_dash_dl"], "syncing"),
             t, "dashboard")

\* window.location.reload(): the page and every task on it are gone, and the
\* module starts afresh from what chrome.storage holds (lines 30-39, 190-212)
PageReload(s, t) ==
    [s EXCEPT !.tasks = [u \in DOMAIN s.tasks |->
                           IF u = t
                           THEN [s.tasks[t] EXCEPT !.pc = "done", !.rv = "true",
                                                   !.reloaded = TRUE]
                           ELSE IdleTask],
              !.syncSettings = s.storedSettings,
              !.isSyncing = FALSE, !.lastSyncAttempt = 0, !.cachedToken = NoToken,
              !.offlineQueue = s.storedQueue, !.currentSyncStatus = "idle",
              !.ctxValid = TRUE, !.timers = {},
              !.statusEl = FALSE, !.clears = {}]

\* DashboardCompared with the fallback write to chrome.storage left out
DashboardComparedNoWrite(s, t, applied) ==
    LET k == T(s, t)
        localState == s.local["dashboard"]
        s0 == [s EXCEPT !.tasks[t].dLocal = localState]
    IN  IF k.dRemote.lm > localState.lm
        THEN LET s1 == [s0 EXCEPT !.tasks[t].applied = @ \cup {"dashboard"}]
             IN  IF s.api = "apply" /\ applied
                 THEN NotebookPart(ApiApplyState(s1, k.dRemote, "dashboard"), t)
                 ELSE [s1 EXCEPT !.tasks[t].pc = "P_dash_set"]
        ELSE NotebookPart(s0, t)

\* lines 660-684: the dashboard record has been read; applied is what
\* applyState answers if it is called
DashboardCompared(s, t, applied) ==
    LET k == T(s, t)
        localState == s.local["dashboard"]
        s0 == [s EXCEPT !.tasks[t].dLocal = localState]
    IN  IF k.dRemote.lm > localState.lm
        THEN LET s1 == [s0 EXCEPT !.tasks[t].applied = @ \cup {"dashboard"}]
             IN  IF s.api = "apply" /\ applied
                 THEN NotebookPart(ApiApplyState(s1, k.dRemote, "dashboard"), t)
                 ELSE [s1 EXCEPT !.local["dashboard"] = k.dRemote,
                                 !.tasks[t].pc = "P_dash_set"]
        ELSE NotebookPart(s0, t)

\* NotebookCompared with the upload taken for equally recent copies too
NotebookComparedUploadOnTie(s, t, applied) ==
    LET k == T(s, t)
        localState == s.local["notebook"]
        s0 == [s EXCEPT !.tasks[t].nLocal = localState]
    IN  IF k.nRemote.lm > localState.lm
        THEN IF ~s.ctxValid
             THEN Done([s0 EXCEPT !.tasks[t].aborted = TRUE], t, "false")
             ELSE [s0 EXCEPT !.local["notebook"] = k.nRemote,
                             !.tasks[t].applied = @ \cup {"notebook"},
                             !.tasks[t].applyOk = s.api = "apply" /\ applied,
                             !.tasks[t].pc = IF s.api = "apply" /\ applied
                                             THEN "P_nb_set" ELSE "P_nb_reload"]
        ELSE uploadState([s0 EXCEPT !.tasks[t].pc = "P_nb_up",
                                    !.tasks[t].handed = @ \cup {"notebook"}],
                         t, "notebook")

\* NotebookCompared with the reload taken whatever applyState answered
NotebookComparedAlwaysReload(s, t, applied) ==
    LET k == T(s, t)
        localState == s.local["notebook"]
        s0 == [s EXCEPT !.tasks[t].nLocal = localState]
    IN  IF k.nRemote.lm > localState.lm
        THEN IF ~s.ctxValid
             THEN Done([s0 EXCEPT !.tasks[t].aborted = TRUE], t, "false")
             ELSE [s0 EXCEPT !.local["notebook"] = k.nRemote,
                             !.tasks[t].applied = @ \cup {"notebook"},
                             !.tasks[t].applyOk = s.api = "apply" /\ applied,
                             !.tasks[t].pc = "P_nb_reload"]
        ELSE IF localState.lm > k.nRemote.lm
        THEN uploadState([s0 EXCEPT !.tasks[t].pc = "P_nb_up",
                                    !.tasks[t].handed = @ \cup {"notebook"}],
                         t, "notebook")
        ELSE FinishPass(s0, t)

\* lines 697-742: the notebook record has been read
NotebookCompared(s, t, applied) ==
    LET k == T(s, t)
        localState == s.local["notebook"]
        s0 == [s EXCEPT !.tasks[t].nLocal = localState]
    IN  IF k.nRemote.lm > localState.lm
        THEN IF ~s.ctxValid
             THEN Done([s0 EXCEPT !.tasks[t].aborted = TRUE], t, "false")
             ELSE [s0 EXCEPT !.local["notebook"] = k.nRemote,
                             !.tasks[t].applied = @ \cup {"notebook"},
                             !.tasks[t].applyOk = s.api = "apply" /\ applied,
                             !.tasks[t].pc = IF s.api = "apply" /\ applied
                                             THEN "P_nb_set" ELSE "P_nb_reload"]
        ELSE IF localState.lm > k.nRemote.lm
        THEN uploadState([s0 EXCEPT !.tasks[t].pc = "P_nb_up",
                                    !.tasks[t].handed = @ \cup {"notebook"}],
                         t, "notebook")
        ELSE FinishPass(s0, t)

\* performFullSync resumed from an await on chrome.storage
PassStorageResumed(s, t, applied) ==
    LET k == T(s, t)
    IN  CASE k.pc = "P_dash_get" -> DashboardCompared(s, t, applied)
          [] k.pc = "P_dash_set" -> NotebookPart(s, t)
          [] k.pc = "P_nb_get" -> NotebookCompared(s, t, applied)
          [] k.pc = "P_nb_set" -> FinishPass(s, t)
          [] k.pc = "P_nb_reload" -> PageReload(s, t)

(* ---------------------------------------------------------- triggerUpload *)
\* the timeout of lines 768-770, and the call that set it
Timeout(s, type) ==
    [call |-> Len(s.trigCalls) + 1, type |-> type, due |-> s.now + SYNC_DEBOUNCE_MS]

\* triggerUpload without the clearTimeout of lines 764-766
triggerUploadNoClear(s, type) ==
    IF ~s.syncSettings.enabled \/ ~s.syncSettings.autoSync
    THEN s
    ELSE [s EXCEPT !.timers = @ \cup {Timeout(s, type)},
                   !.trigCalls = Append(@, [type |-> type, at |-> s.now,
                                            state |-> s.local[type]])]

\* triggerUpload(type): syncDebounceTimer is cleared and set anew
triggerUpload(s, type) ==
    IF ~s.syncSettings.enabled \/ ~s.syncSettings.autoSync
    THEN s
    ELSE [s EXCEPT !.timers = {Timeout(s, type)},
                   !.trigCalls = Append(@, [type |-> type, at |-> s.now,
                                            state |-> s.local[type]])]

\* the owning layer saves a mutated document under a new envelope
OwnerSave(s, type) ==
    [s EXCEPT !.local[type] = Doc(3 + s.edits, s.now),
              !.edits = @ + 1,
              !.synced = @ \ {type},
              !.tasks = [u \in DOMAIN s.tasks |->
                           [s.tasks[u] EXCEPT
                               !.dirty = IF s.tasks[u].pc /= "idle"
                                         THEN @ \cup {type} ELSE @,
                               !.sawSynced = @ \ {type}]]]

(* ------------------------------------------------ enableSync, disableSync *)
\* enableSync from its call to its await: getAuthToken(true) always asks
\* the broker
enableSync(s, t) ==
    Issue([updateSyncStatus(s, "syncing")
              EXCEPT !.tasks[t].pc = "E_token", !.tasks[t].net = "etoken",
                     !.tasks[t].interactive = TRUE,
                     !.tasks[t].enabled0 =
                         s.syncSettings.enabled \/ s.storedSettings.enabled])

\* EnableTokenAnswered with step 2 (enabled = true, save) done before the
\* answer of the broker is looked at
EnableTokenAnsweredEager(s, t, success) ==
    LET s0 == [s EXCEPT !.tasks[t].net = "none", !.tasks[t].interactive = FALSE,
                        !.tasks[t].tokenOk = success]
        s1 == saveSyncSettings([s0 EXCEPT !.syncSettings.enabled = TRUE])
    IN  IF ~success
        THEN updateSyncStatus([s1 EXCEPT !.cachedToken = NoToken,
                                         !.tasks[t].pc = "done",
                                         !.tasks[t].rv = "false"],
                              "error")
        ELSE performFullSync([s1 EXCEPT !.cachedToken = Token], t)

\* lines 798-813: the broker has answered enableSync
EnableTokenAnswered(s, t, success) ==
    LET s0 == [s EXCEPT !.tasks[t].net = "none", !.tasks[t].interactive = FALSE,
                        !.tasks[t].tokenOk = success]
    IN  IF ~success
        THEN updateSyncStatus([s0 EXCEPT !.cachedToken = NoToken,
                                         !.tasks[t].pc = "done",
                                         !.tasks[t].rv = "false"],
                              "error")
        ELSE performFullSync(
                 saveSyncSettings([s0 EXCEPT !.cachedToken = Token,
                                             !.syncSettings.enabled = TRUE]),
                 t)

\* disableSync without the saveSyncSettings() of line 833
disableSyncNoSave(s, t) ==
    LET s1 == [s EXCEPT !.syncSettings.enabled = FALSE]
    IN  IF s1.cachedToken /= NoToken
        THEN Issue([s1 EXCEPT !.tasks[t].pc = "X_revoke", !.tasks[t].net = "drevoke"])
        ELSE Done(updateSyncStatus(s1, "idle"), t, "none")

\* disableSync from its call to the await inside revokeAuthToken
disableSync(s, t) ==
    LET s1 == saveSyncSettings([s EXCEPT !.syncSettings.enabled = FALSE])
    IN  IF s1.cachedToken /= NoToken
        THEN Issue([s1 EXCEPT !.tasks[t].pc = "X_revoke", !.tasks[t].net = "drevoke"])
        ELSE Done(updateSyncStatus(s1, "idle"), t, "none")

\* lines 301 and 835-837: the revocation has been acknowledged
DisableRevoked(s, t) ==
    Done(updateSyncStatus([s EXCEPT !.cachedToken = NoToken,
                                    !.tasks[t].net = "none"],
                          "idle"),
         t, "none")

(* ---------------------------------------------------- processOfflineQueue *)
\* the head of the for loop: the next entry is replayed, or the loop is over
\* and the queue is saved
ReplayNext(s, t) ==
    LET k == T(s, t)
    IN  IF k.q = <<>>
        THEN saveOfflineQueue([s EXCEPT !.tasks[t].pc = "Q_save2"])
        ELSE uploadState([s EXCEPT !.tasks[t].pc = "Q_up",
                                   !.replayCount[Head(k.q).id] = @ + 1],
                         t, Head(k.q).type)

\* lines 110-120: uploadState has answered; it never throws, so the catch
\* block that re-queues the entry is never entered
Replayed(s, t) ==
    LET k == T(s, t)
    IN  ReplayNext([s EXCEPT !.tasks[t].q = Tail(k.q),
                             !.tasks[t].successCount =
                                 IF k.rv = "true" THEN @ + 1 ELSE @,
                             !.tasks[t].failedOps =
                                 IF k.rv = "true" THEN @ ELSE @ \cup {Head(k.q)}],
                   t)

\* SnapshotQueue without emptying the live queue
SnapshotQueueNoClear(s, t) ==
    saveOfflineQueue([s EXCEPT !.tasks[t].q = s.offlineQueue,
                               !.tasks[t].snap = s.offlineQueue])

\* the snapshot of lines 106-108
SnapshotQueue(s, t) ==
    saveOfflineQueue([s EXCEPT !.tasks[t].q = s.offlineQueue,
                               !.tasks[t].snap = s.offlineQueue,
                               !.offlineQueue = <<>>])

\* processOfflineQueue from its call to its first await
processOfflineQueue(s, t) ==
    IF Len(s.offlineQueue) = 0 \/ ~s.syncSettings.enabled
    THEN [s EXCEPT !.tasks[t] = IdleTask]
    ELSE [SnapshotQueue(s, t) EXCEPT !.tasks[t].pc = "Q_save1"]

\* processOfflineQueue resumed from an await on chrome.storage
QueueStorageResumed(s, t) ==
    IF T(s, t).pc = "Q_save1" THEN ReplayNext(s, t) ELSE Done(s, t, "none")

(* ------------------------------------------------------------ continuation *)
\* uploadState / downloadState has returned into the function that awaits it
\* Continue with a pass that takes a null download for an empty document and
\* stores it
ContinueStoreNull(s, t) ==
    LET k == T(s, t)
        s0 == [s EXCEPT !.tasks[t].sub = "none"]
    IN  CASE k.pc = "P_dash_dl" ->
                IF k.rv = "data"
                THEN [s0 EXCEPT !.tasks[t].pc = "P_dash_get",
                                !.tasks[t].dRemote = k.rdoc]
                ELSE NotebookPart([s0 EXCEPT !.local["dashboard"] = k.rdoc], t)
          [] k.pc = "P_nb_dl" ->
                IF k.rv = "data"
                THEN [s0 EXCEPT !.tasks[t].pc = "P_nb_get",
                                !.tasks[t].nRemote = k.rdoc]
                ELSE FinishPass([s0 EXCEPT !.local["notebook"] = k.rdoc], t)
          [] k.pc = "P_nb_up" -> FinishPass(s0, t)
          [] k.pc = "T_up" -> Done(s0, t, k.rv)
          [] k.pc = "T_down" -> Done(s0, t, k.rv)
          [] k.pc = "Q_up" -> Replayed(s0, t)

\* Continue with a pass that gives up when the dashboard download gave nothing
ContinueStopOnNull(s, t) ==
    LET k == T(s, t)
        s0 == [s EXCEPT !.tasks[t].sub = "none"]
    IN  CASE k.pc = "P_dash_dl" ->
                IF k.rv = "data"
                THEN [s0 EXCEPT !.tasks[t].pc = "P_dash_get",
                                !.tasks[t].dRemote = k.rdoc]
                ELSE FinishPass(s0, t)
          [] k.pc = "P_nb_dl" ->
                IF k.rv = "data"
                THEN [s0 EXCEPT !.tasks[t].pc = "P_nb_get",
                                !.tasks[t].nRemote = k.rdoc]
                ELSE FinishPass(s0, t)
          [] k.pc = "P_nb_up" -> FinishPass(s0, t)
          [] k.pc = "T_up" -> Done(s0, t, k.rv)
          [] k.pc = "T_down" -> Done(s0, t, k.rv)
          [] k.pc = "Q_up" -> Replayed(s0, t)

\* a function called with await has returned: the caller goes on
Continue(s, t) ==
    LET k == T(s, t)
        s0 == [s EXCEPT !.tasks[t].sub = "none"]
    IN  CASE k.pc = "P_dash_dl" ->
                IF k.rv = "data"
                THEN [s0 EXCEPT !.tasks[t].pc = "P_dash_get",
                                !.tasks[t].dRemote = k.rdoc]
                ELSE NotebookPart(s0, t)
          [] k.pc = "P_nb_dl" ->
                IF k.rv = "data"
                THEN [s0 EXCEPT !.tasks[t].pc = "P_nb_get",
                                !.tasks[t].nRemote = k.rdoc]
                ELSE FinishPass(s0, t)
          [] k.pc = "P_nb_up" -> FinishPass(s0, t)
          [] k.pc = "T_up" -> Done(s0, t, k.rv)
          [] k.pc = "T_down" -> Done(s0, t, k.rv)
          [] k.pc = "Q_up" -> Replayed(s0, t)

\* a task runs on through every function that returns without a real await
RECURSIVE Run(_, _)
Run(s, t) == IF T(s, t).sub = "ret" THEN Run(Continue(s, t), t) ELSE s

Fresh(proc, pc) == [IdleTask EXCEPT !.proc = proc, !.pc = pc]
Free(t) == tasks[t].pc \in {"idle", "done"}
AwaitsStorage(t) ==
    /\ tasks[t].net = "none"
    /\ \/ tasks[t].sub \in {"U_offget", "U_offsave", "U_get"}
       \/ /\ tasks[t].sub = "none"
          /\ tasks[t].pc \in {"P_dash_get", "P_dash_set", "P_nb_get", "P_nb_set",
                              "P_nb_reload", "Q_save1", "Q_save2"}

(* ----------------------------------------------------------------- actions *)
\* the sync button, the menu, the startup and navigation timers, the API
CallPerformFullSync(t) ==
    /\ t \in PassTasks /\ Free(t)
    /\ Set(Run(performFullSync(
                   [S EXCEPT !.tasks[t] = [Fresh("pfs", "start")
                                             EXCEPT !.sawSynced = synced]], t), t))

\* the debounce timer, the API
CallUploadState(t, type) ==
    /\ t \in UploadTasks /\ Free(t)
    /\ Set(Run(uploadState([S EXCEPT !.tasks[t] = Fresh("upl", "T_up")], t, type), t))

\* the API (window.FoldNestSync.downloadState)
CallDownloadState(t, type) ==
    /\ t \in DownloadTasks /\ Free(t)
    /\ Set(Run(downloadState([S EXCEPT !.tasks[t] = Fresh("dwn", "T_down")], t, type), t))

\* the startup timer, the API
CallProcessOfflineQueue(t) ==
    /\ t \in QueueTasks /\ Free(t)
    /\ offlineQueue /= <<>>
    /\ Set(Run(processOfflineQueue([S EXCEPT !.tasks[t] = Fresh("poq", "start")], t), t))

TokenResponse(t, success) ==
    /\ tasks[t].net = "token"
    /\ Set(Run(TokenAnswered(S, t, success), t))

FetchResponse(t, r) ==
    /\ tasks[t].net = "fetch"
    /\ Set(Run(FetchAnswered(S, t, r), t))

RevokeResponse(t) ==
    /\ tasks[t].net = "revoke"
    /\ Set(Run(RevokeAnswered(S, t), t))

StorageResponse(t, applied) ==
    /\ AwaitsStorage(t)
    /\ Set(Run(CASE tasks[t].sub /= "none" -> UploadStorageResumed(S, t)
                 [] tasks[t].proc \in {"pfs", "ena"} -> PassStorageResumed(S, t, applied)
                 [] tasks[t].proc = "poq" -> QueueStorageResumed(S, t),
               t))

\* the clock
Tick(d) ==
    /\ now + d <= MaxNow
    \* a timeout runs when it is due
    /\ \A tm \in timers \cup clears : now + d <= tm.due
    /\ Set([S EXCEPT !.now = now + d])

\* the 'offline' event (lines 143-148)
GoOffline ==
    /\ isOnline
    /\ Len(replayCount) < MaxEnq
    /\ Set(updateSyncStatus([S EXCEPT !.isOnline = FALSE], "offline"))

\* the 'online' event (lines 136-141): processOfflineQueue is called
GoOnline(t) ==
    /\ ~isOnline
    /\ t \in QueueTasks /\ Free(t)
    /\ Set(Run(processOfflineQueue(
                   [S EXCEPT !.isOnline = TRUE, !.tasks[t] = Fresh("poq", "start")],
                   t), t))

\* the owning layer saves a mutated document under a new envelope
\* (saveState / saveDashboardState of content.js)
LocalEdit(type) ==
    /\ edits < MaxEdits
    /\ Set([S EXCEPT !.local[type] = Doc(3 + edits, now),
                     !.edits = @ + 1,
                     !.synced = @ \ {type},
                     !.tasks = [u \in DOMAIN tasks |->
                                  [tasks[u] EXCEPT
                                      !.dirty = IF tasks[u].pc /= "idle"
                                                THEN @ \cup {type} ELSE @,
                                      !.sawSynced = @ \ {type}]]])

\* addSyncButton (lines 887-903): the controls area has appeared
AddSyncButton ==
    /\ ~statusEl
    /\ Set([S EXCEPT !.statusEl = TRUE])

\* an auto-clear of updateSyncStatus is due
StatusTimerFires ==
    \E tm \in clears :
        /\ now >= tm.due
        /\ Set(IF tm.kind = "success" THEN SuccessClear(S, tm) ELSE OnlinePoll(S, tm))

\* the extension is reloaded under the page
InvalidateContext ==
    /\ ctxValid
    /\ Set([S EXCEPT !.ctxValid = FALSE])

\* toggleSync while sync is off (the menu, the API)
CallEnableSync(t) ==
    /\ t \in EnableTasks /\ Free(t)
    /\ ~syncSettings.enabled
    /\ Set(Run(enableSync([S EXCEPT !.tasks[t] = Fresh("ena", "start")], t), t))

\* the broker answers enableSync: a token, or none (consent refused, broker
\* unreachable)
EnableTokenResponse(t, success) ==
    /\ tasks[t].net = "etoken"
    /\ Set(Run(EnableTokenAnswered(S, t, success), t))

\* toggleSync while sync is on
CallDisableSync(t) ==
    /\ t \in DisableTasks /\ Free(t)
    /\ syncSettings.enabled
    /\ Set(Run(disableSync([S EXCEPT !.tasks[t] = Fresh("dis", "start")], t), t))

DisableRevokeResponse(t) ==
    /\ tasks[t].net = "drevoke"
    /\ Set(Run(DisableRevoked(S, t), t))

\* the owning layer reports a change of the document (edit), or calls
\* triggerUpload again for the document as it is
TriggerUpload(type, edit) ==
    /\ Len(trigCalls) < MaxTrig
    /\ edit => edits < MaxEdits
    /\ Set(triggerUpload(IF edit THEN OwnerSave(S, type) ELSE S, type))

\* a timeout of triggerUpload is due: uploadState(type) is called
TimerFires(t) ==
    /\ t \in TimerTasks /\ Free(t)
    /\ \E tm \in timers :
          /\ now >= tm.due
          /\ Set(Run(uploadState(
                         [S EXCEPT !.tasks[t] = Fresh("upl", "T_up"),
                                   !.timers = @ \ {tm},
                                   !.timerCalls =
                                       Append(@, [call |-> tm.call, type |-> tm.type,
                                                  at |-> now,
                                                  state |-> local[tm.type]])],
                         t, tm.type), t))

(* ------------------------------------------------------------------- init *)
Settings0 == [enabled |-> TRUE, lastSyncTime |-> 0, autoSync |-> TRUE]

\* a document's two copies when the page loads: local newer, remote newer,
\* equally recent, no remote file, no local record
Copies ==
    { <<Doc(1, T0 - 1000), <<Doc(2, T0 - 2000)>> >>,
      <<Doc(1, T0 - 2000), <<Doc(2, T0 - 1000)>> >>,
      <<Doc(1, T0 - 2000), <<Doc(2, T0 - 2000)>> >>,
      <<Doc(1, T0 - 2000), << >> >>,
      <<NoDoc, <<Doc(2, T0 - 2000)>> >> }

\* neither copy carries _syncMeta: no local record, a remote file from elsewhere
NoEnvelope == <<NoDoc, <<Doc(2, 0)>> >>

\* the settings of a profile in which sync was never enabled (lines 30-34)
SettingsOff == [enabled |-> FALSE, lastSyncTime |-> 0, autoSync |-> TRUE]

InitCore(settings, pages, apis, copiesD, copiesN, els) ==
    /\ statusEl \in els /\ clears = {} /\ fired = NoFire
    /\ syncSettings \in settings /\ storedSettings = syncSettings
    /\ isSyncing = FALSE /\ lastSyncAttempt = 0 /\ cachedToken = NoToken
    /\ isOnline = TRUE /\ offlineQueue = <<>> /\ storedQueue = <<>>
    /\ currentSyncStatus = "idle" /\ ctxValid = TRUE /\ now = T0
    /\ onNotebook \in pages /\ api \in apis
    \* off a notebook page no notebook document is in play
    /\ \E d \in copiesD, n \in IF onNotebook THEN copiesN ELSE {<<NoDoc, << >> >>} :
          /\ local = [x \in Types |-> IF x = "dashboard" THEN d[1] ELSE n[1]]
          /\ remote = [x \in Types |-> IF x = "dashboard" THEN d[2] ELSE n[2]]
    /\ tasks = [t \in TaskIds |-> IdleTask]
    /\ edits = 0 /\ lastEnq = [x \in Types |-> NoDoc] /\ replayCount = <<>>
    /\ offlineRequest = FALSE
    /\ lastUpload = [type |-> "none", from |-> NoDoc, lm |-> 0]
    /\ synced = {}
    /\ timers = {} /\ trigCalls = <<>> /\ timerCalls = <<>> /\ lastReq = NoReq
    /\ lastPassed = [at |-> 0, gap |-> -1, gapHere |-> -1]

\* the page before the sync button is added (setupSyncUI waits for the
\* controls area of the owning layer)
InitState(settings, pages, apis, copiesD, copiesN) ==
    InitCore(settings, pages, apis, copiesD, copiesN, {FALSE})

InitWith(pages, apis, copiesD, copiesN) ==
    InitState({Settings0}, pages, apis, copiesD, copiesN)

Responses == {"ok", "401", "403", "fail"}

TaskStep(t) ==
    \/ \E success \in BOOLEAN : TokenResponse(t, success)
    \/ \E r \in Responses : FetchResponse(t, r)
    \/ RevokeResponse(t)
    \/ \E applied \in BOOLEAN : StorageResponse(t, applied)

\* full passes, online throughout
InitSync ==
    InitWith(BOOLEAN, {"none", "noApply", "apply"}, Copies, Copies \cup {NoEnvelope})

NextSync ==
    \/ CallPerformFullSync("p1")
    \/ TaskStep("p1")
    \/ Tick(SYNC_COOLDOWN_MS)
    \/ \E type \in Types : LocalEdit(type)
    \/ InvalidateContext

SpecSync == InitSync /\ [][NextSync]_vars

\* uploads and queue replay across offline periods, on a notebook page
LocalNewer == <<Doc(1, T0 - 1000), <<Doc(2, T0 - 2000)>> >>
NoRemote == <<Doc(1, T0 - 2000), << >> >>
InitQueue == InitWith({TRUE}, {"noApply"}, {LocalNewer}, {NoRemote})

NextQueue ==
    \/ \E type \in Types : CallUploadState("u1", type)
    \/ \E t \in QueueTasks : CallProcessOfflineQueue(t)
    \/ \E t \in QueueTasks \cup UploadTasks : TaskStep(t)
    \/ Tick(SYNC_COOLDOWN_MS)
    \/ GoOffline
    \/ \E t \in QueueTasks : GoOnline(t)
    \/ \E type \in Types : LocalEdit(type)

SpecQueue == InitQueue /\ [][NextQueue]_vars

\* two full passes started independently of each other
RemoteNewer == <<Doc(1, T0 - 2000), <<Doc(2, T0 - 1000)>> >>
InitRace == InitWith({TRUE}, {"apply"}, {RemoteNewer, LocalNewer}, {LocalNewer})

NextRace ==
    \/ \E t \in PassTasks : CallPerformFullSync(t)
    \/ \E t \in PassTasks : TaskStep(t)
    \/ Tick(SYNC_COOLDOWN_MS)

SpecRace == InitRace /\ [][NextRace]_vars

\* sync switched on and off while uploads run, on a notebook page
InitToggle == InitState({SettingsOff, Settings0}, {TRUE}, {"noApply"},
                        {RemoteNewer}, {LocalNewer})

\* the remote store answers, or finds the token expired
ToggleStep(t) ==
    \/ \E success \in BOOLEAN : TokenResponse(t, success)
    \/ \E r \in {"ok", "401"} : FetchResponse(t, r)
    \/ RevokeResponse(t)
    \/ \E applied \in BOOLEAN : StorageResponse(t, applied)

NextToggle ==
    \/ CallEnableSync("e1")
    \/ \E success \in BOOLEAN : EnableTokenResponse("e1", success)
    \/ CallDisableSync("d1")
    \/ DisableRevokeResponse("d1")
    \/ \E type \in Types : CallUploadState("u1", type)
    \/ \E t \in {"e1", "u1"} : ToggleStep(t)
    \/ InvalidateContext

SpecToggle == InitToggle /\ [][NextToggle]_vars

\* local changes reported through triggerUpload, online, every request answered
InitTrigger == InitState({Settings0}, {TRUE}, {"noApply"}, {LocalNewer}, {NoRemote})

AnswerStep(t) ==
    \/ TokenResponse(t, TRUE)
    \/ FetchResponse(t, "ok")
    \/ \E applied \in BOOLEAN : StorageResponse(t, applied)

NextTrigger ==
    \/ \E type \in Types, edit \in BOOLEAN : TriggerUpload(type, edit)
    \/ \E t \in TimerTasks : TimerFires(t)
    \/ \E t \in TimerTasks : AnswerStep(t)
    \/ Tick(Step)

SpecTrigger == InitTrigger /\ [][NextTrigger]_vars

\* uploadState called by a full pass, by the replay of the queue, and
\* directly as the debounce timer and the API call it
InitCooldown == InitState({Settings0}, {TRUE}, {"noApply"}, {RemoteNewer}, {LocalNewer})

NextCooldown ==
    \/ CallPerformFullSync("p1")
    \/ CallUploadState("u1", "notebook")
    \/ GoOffline
    \/ GoOnline("q1")
    \/ \E t \in {"p1", "u1", "q1"} : AnswerStep(t)
    \/ Tick(SYNC_COOLDOWN_MS)

SpecCooldown == InitCooldown /\ [][NextCooldown]_vars

\* uploadState and downloadState called directly while sync is off, while
\* another of them runs, and inside the cooldown
InitGuard == InitState({SettingsOff, Settings0}, {TRUE}, {"noApply"},
                       {LocalNewer}, {RemoteNewer})

NextGuard ==
    \/ \E type \in Types : CallUploadState("u1", type)
    \/ \E type \in Types : CallDownloadState("g1", type)
    \/ \E t \in {"u1", "g1"} : AnswerStep(t)
    \/ CallDisableSync("d1")
    \/ DisableRevokeResponse("d1")
    \/ GoOffline
    \/ Tick(Step)

SpecGuard == InitGuard /\ [][NextGuard]_vars

\* direct uploads and downloads against a store that answers 200, 401 or 403
InitForbidden == InitWith({TRUE}, {"noApply"}, {LocalNewer}, {LocalNewer})

ForbiddenStep(t) ==
    \/ TokenResponse(t, TRUE)
    \/ \E r \in {"ok", "401", "403"} : FetchResponse(t, r)
    \/ RevokeResponse(t)
    \/ \E applied \in BOOLEAN : StorageResponse(t, applied)

NextForbidden ==
    \/ \E type \in Types : CallUploadState("u1", type)
    \/ \E type \in Types : CallDownloadState("g1", type)
    \/ \E t \in {"u1", "g1"} : ForbiddenStep(t)
    \/ Tick(SYNC_COOLDOWN_MS)

SpecForbidden == InitForbidden /\ [][NextForbidden]_vars

\* the status and its auto-clears: uploads, connectivity changes and the
\* replay they start, with the sync button on the page or added later
InitStatus == InitCore({Settings0}, {TRUE}, {"noApply"}, {LocalNewer}, {NoRemote},
                       BOOLEAN)

NextStatus ==
    \/ AddSyncButton
    \/ CallUploadState("u1", "notebook")
    \/ GoOffline
    \/ GoOnline("q1")
    \/ \E t \in {"u1", "q1"} : AnswerStep(t)
    \/ StatusTimerFires
    \/ Tick(Step)

SpecStatus == InitStatus /\ [][NextStatus]_vars

\* direct uploads and downloads on every exit path: with and without a local
\* record, online and offline, every request answered or failed
NoLocal == <<NoDoc, <<Doc(2, T0 - 2000)>> >>
InitExit == InitWith({TRUE}, {"noApply"}, {LocalNewer, NoLocal}, {LocalNewer, NoLocal})

NextExit ==
    \/ \E type \in Types : CallUploadState("u1", type)
    \/ \E type \in Types : CallDownloadState("g1", type)
    \/ \E t \in {"u1", "g1"} : TaskStep(t)
    \/ GoOffline
    \/ Tick(SYNC_COOLDOWN_MS)

SpecExit == InitExit /\ [][NextExit]_vars

\* the task waits for the answer to a request or to a chrome.storage call:
\* the state predicate equal to ENABLED <<TaskStep(t)>>_vars
Pending(t) == tasks[t].net /= "none" \/ AwaitsStorage(t)

\* every awaited call of a running invocation completes: weak fairness of
\* TaskStep(t), WF_vars(TaskStep(t)), with its ENABLED written as Pending(t)
AwaitCompletes(t) == []<>~Pending(t) \/ []<><<TaskStep(t)>>_vars

SpecExitFair ==
    InitExit /\ [][NextExit]_vars /\ AwaitCompletes("u1") /\ AwaitCompletes("g1")

(* ------------------------------------------------------------------ claims *)
PassDone(t) == tasks[t].proc = "pfs" /\ tasks[t].pc = "done"

\* what a pass downloaded and what it read from chrome.storage for a type
RemoteRead(t, type) == IF type = "dashboard" THEN tasks[t].dRemote ELSE tasks[t].nRemote
LocalRead(t, type) == IF type = "dashboard" THEN tasks[t].dLocal ELSE tasks[t].nLocal

\* the pass compared the two copies of the type, nobody edited the local one
\* since the pass began, and every request of the pass was answered 2xx
Compared(t, type) ==
    /\ PassDone(t)
    /\ RemoteRead(t, type) /= NoDoc
    /\ type \notin tasks[t].dirty
    /\ ~tasks[t].netFail

\* C1: a pass that finds the local copy of a tracked document strictly newer
\* than the downloaded remote copy uploads it: afterwards the remote payload
\* is the pre-sync local payload and the local record is unchanged.
C1_LocalNewerIsUploaded ==
    \A t \in PassTasks : \A type \in Types :
        (Compared(t, type) /\ LocalRead(t, type).lm > RemoteRead(t, type).lm)
        => /\ remote[type][1].payload = LocalRead(t, type).payload
           /\ local[type] = LocalRead(t, type)

\* C2 as claimed: a pass that finds the downloaded remote copy strictly newer
\* than the local one ends with the local record equal to the remote document
\* and has issued no upload of that document.
C2_RemoteNewerIsApplied ==
    \A t \in PassTasks : \A type \in Types :
        (Compared(t, type) /\ RemoteRead(t, type).lm > LocalRead(t, type).lm)
        => /\ local[type] = RemoteRead(t, type)
           /\ type \notin tasks[t].ups

\* the pass stopped at the context check made before the notebook is applied
AbortedAtNotebook(t) == tasks[t].aborted /\ tasks[t].nRemote /= NoDoc

\* C2 amended: ... unless the pass finds the extension context invalidated at
\* the check made before applying the notebook document: then it ends with the
\* notebook record as it was read, still without an upload.
C2_RemoteNewerIsAppliedUnlessAborted ==
    \A t \in PassTasks : \A type \in Types :
        (Compared(t, type) /\ RemoteRead(t, type).lm > LocalRead(t, type).lm)
        => /\ type \notin tasks[t].ups
           /\ IF type = "notebook" /\ AbortedAtNotebook(t)
              THEN local[type] = LocalRead(t, type)
              ELSE local[type] = RemoteRead(t, type)

\* C2 witness: a finished pass that found both remote copies newer and wrote
\* both local records
C2_Witness ==
    \E t \in PassTasks :
        /\ \A type \in Types :
              /\ Compared(t, type)
              /\ RemoteRead(t, type).lm > LocalRead(t, type).lm
              /\ LocalRead(t, type) /= RemoteRead(t, type)
        /\ tasks[t].applied = Types

\* C3: once uploadState has uploaded a document and neither copy was mutated
\* since, a later pass does not apply the remote copy of that document to
\* local storage (and so does not reload the page for it).
C3_OwnWriteNotReapplied ==
    \A t \in PassTasks : tasks[t].applied \cap tasks[t].sawSynced = {}

\* C4: a successful uploadFile leaves the remote document with the
\* _syncMeta.lastModified of the local document that was uploaded.
C4_UploadKeepsEnvelope ==
    lastUpload.type /= "none" => lastUpload.lm = lastUpload.from.lm

Entries(queue) == {queue[i] : i \in 1..Len(queue)}
QueuedTypes(queue) == {queue[i].type : i \in 1..Len(queue)}

\* the step in which the invocation of task t returns
Returns(t, proc) ==
    tasks[t].pc /= "done" /\ tasks'[t].pc = "done" /\ tasks'[t].proc = proc

\* C5: when processOfflineQueue returns, every entry whose replay upload did
\* not succeed (an upload skipped by the isSyncing or cooldown guard included)
\* is in the offline queue, with its original timestamp.
C5_FailedReplayStaysQueued ==
    [][\A t \in QueueTasks :
          Returns(t, "poq") => tasks'[t].failedOps \subseteq Entries(offlineQueue')]_vars

\* C6: when an upload of a document of type T goes out and does not reach the
\* remote store, an entry of type T is in the offline queue afterwards.
C6_FailedUploadIsQueued ==
    [][\A t \in TaskIds :
          (~tasks[t].ufailed /\ tasks'[t].ufailed)
          => tasks[t].typ \in QueuedTypes(offlineQueue')]_vars

\* C7: the offline queue never holds two entries of one type, and the entry
\* of a type carries the state of the latest enqueue of that type.
C7_OneEntryPerType ==
    /\ \A i, j \in 1..Len(offlineQueue) :
          i /= j => offlineQueue[i].type /= offlineQueue[j].type
    /\ \A i \in 1..Len(offlineQueue) :
          offlineQueue[i].state = lastEnq[offlineQueue[i].type]

\* C7 witness: two enqueues of one type with a mutation between them and no
\* replay since have left the single entry of the second
C7_Witness ==
    /\ Len(replayCount) = 2
    /\ \A t \in QueueTasks : tasks[t].pc = "idle"
    /\ Len(offlineQueue) = 1
    /\ offlineQueue[1].id = 2
    /\ offlineQueue[1].state.payload = 3

\* C8: whatever the number of overlapping processOfflineQueue invocations,
\* uploadState is called at most once for an enqueued entry, and no entry is
\* in the snapshots of two invocations or in a snapshot and the live queue.
C8_EntryReplayedOnce ==
    /\ \A id \in 1..Len(replayCount) : replayCount[id] <= 1
    /\ \A t \in QueueTasks :
          /\ Active(t) => Entries(tasks[t].snap) \cap Entries(offlineQueue) = {}
          /\ \A u \in QueueTasks \ {t} :
                (Active(t) /\ Active(u))
                => Entries(tasks[t].snap) \cap Entries(tasks[u].snap) = {}

\* C8 witness: two invocations in flight at once, each with an entry of its
\* own, both entries replayed
C8_Witness ==
    /\ \A t \in QueueTasks : Active(t) /\ tasks[t].snap /= <<>>
    /\ replayCount = <<1, 1>>

\* C9: no request goes to the token broker or the remote store while
\* isOnline = false, also when the device goes offline while uploadState or
\* downloadState is suspended after its isOnline check.
C9_NoRequestWhileOffline == ~offlineRequest

\* C10: at most one full pass is in progress at any time.
C10_OnePassAtATime ==
    \A t \in PassTasks : \A u \in PassTasks \ {t} : ~(Active(t) /\ Active(u))

\* the request in progress in task t has had a 401 answer
Had401(t) == tasks[t].n401 >= 1

\* C13 as claimed: a 401 answer triggers exactly one token invalidation and
\* exactly one retry of the request; a 401 answer to the retry ends the
\* request as a failure, and no request sends a third fetch.
C13_OneInvalidationOneRetry ==
    /\ \A t \in TaskIds :
          /\ tasks[t].nfetch <= 2 /\ tasks[t].nretry <= 1
          /\ Had401(t) => tasks[t].nrevoke = 1
          /\ (Had401(t) /\ tasks[t].net /= "revoke") => tasks[t].nretry = 1
    /\ lastReq.n401 >= 1 => (lastReq.nrevoke = 1 /\ lastReq.nretry = 1)
    /\ lastReq.n401 >= 2 => (~lastReq.ok /\ lastReq.nfetch = 2 /\ lastReq.n401 = 2)

\* the invalidations a request that saw a 401 answer has made: one, or none
\* when the cached token was gone by the time the answer came
Revocations(gone) == IF gone THEN 0 ELSE 1

\* C13 amended: a 401 answer triggers exactly one retry of the request, and
\* exactly one token invalidation unless the cached token was cleared while
\* the request was in flight (disableSync, a refused token), when it triggers
\* none; a 401 answer to the retry ends the request as a failure, and no
\* request sends a third fetch.
C13_OneRetryAtMostOneInvalidation ==
    /\ \A t \in TaskIds :
          /\ tasks[t].nfetch <= 2 /\ tasks[t].nretry <= 1
          /\ Had401(t) => tasks[t].nrevoke = Revocations(tasks[t].tokenGone)
          /\ ~Had401(t) => (tasks[t].nrevoke = 0 /\ tasks[t].nretry = 0)
          /\ (Had401(t) /\ tasks[t].net /= "revoke") => tasks[t].nretry = 1
    /\ lastReq.n401 >= 1 => /\ lastReq.nrevoke = Revocations(lastReq.gone)
                            /\ lastReq.nretry = 1
    /\ lastReq.n401 = 0 => (lastReq.nrevoke = 0 /\ lastReq.nretry = 0)
    /\ lastReq.n401 >= 2 => (~lastReq.ok /\ lastReq.nfetch = 2 /\ lastReq.n401 = 2)

\* C13 witness: a request has ended as a failure after a 401 answer, one
\* invalidation, and a 401 answer to its one retry
C13_Witness ==
    /\ lastReq.task /= "none"
    /\ lastReq.n401 = 2 /\ lastReq.nfetch = 2
    /\ lastReq.nrevoke = 1 /\ lastReq.nretry = 1 /\ ~lastReq.ok

\* C14: the token request of a retry is made with interactive = false.
C14_RetryTokenNotInteractive ==
    \A t \in TaskIds : tasks[t].net = "token" => ~tasks[t].interactive

\* C19: a pass that aborts on an invalid extension context has written no
\* local document, no settings and no remote document.
C19_AbortedPassWroteNothing ==
    \A t \in PassTasks :
        (PassDone(t) /\ tasks[t].aborted)
        => (tasks[t].applied = {} /\ tasks[t].upOk = {})

\* C20: a pass ends with status success and a new lastSyncTime only if none
\* of its lookups and downloads failed and no downloadState of it was skipped
\* by the isSyncing guard or for being offline.
C20_SuccessMeansAllReconciled ==
    \A t \in PassTasks :
        (PassDone(t) /\ tasks[t].rv = "true" /\ ~tasks[t].reloaded)
        => (~tasks[t].netFail /\ tasks[t].skipped = {})

\* C11: when enableSync returns after it got a token and its performFullSync
\* answered false, settings.enabled is false.
C11_FailedFirstPassLeavesDisabled ==
    [][\A t \in EnableTasks :
          (Returns(t, "ena") /\ tasks'[t].tokenOk /\ tasks'[t].passRv = "false")
          => ~syncSettings'.enabled]_vars

\* no fetch leaves the page in the step
NoFetchSent ==
    \A u \in TaskIds :
        tasks'[u].net = "fetch"
        => (tasks[u].net = "fetch" /\ tasks'[u].nfetch = tasks[u].nfetch)

\* C12: an enableSync begun with enabled = false in memory and in storage
\* whose token acquisition fails returns false with enabled = false in memory
\* and in storage and status error, and its last step sends no fetch and
\* changes no remote document (it has no earlier step but the question to
\* the broker).
C12_FailedTokenLeavesDisabled ==
    [][\A t \in EnableTasks :
          (Returns(t, "ena") /\ ~tasks'[t].enabled0 /\ ~tasks'[t].tokenOk)
          => /\ tasks'[t].rv = "false"
             /\ ~syncSettings'.enabled /\ ~storedSettings'.enabled
             /\ currentSyncStatus' = "error"
             /\ tasks[t].pc = "E_token"
             /\ NoFetchSent /\ remote' = remote
             /\ tasks'[t].ups = {}]_vars

\* C12 witness: enableSync has ended on a refused token, sync is off
C12_Witness ==
    \E t \in EnableTasks :
        /\ tasks[t].proc = "ena" /\ tasks[t].pc = "done"
        /\ ~tasks[t].enabled0 /\ ~tasks[t].tokenOk /\ tasks[t].rv = "false"
        /\ ~syncSettings.enabled /\ currentSyncStatus = "error"

\* C18: no upload of a document is sent while settings.enabled is false, by
\* any operation, those in flight when disableSync ran included.
C18_NoUploadWhileDisabled ==
    \A t \in TaskIds : ~tasks[t].sentDisabled

\* call k of triggerUpload was followed by no other call within the window
LastOfBurst(k) ==
    \A j \in (k + 1)..Len(trigCalls) :
        trigCalls[j].at > trigCalls[k].at + SYNC_DEBOUNCE_MS

Quiescent == timers = {} /\ \A t \in TaskIds : ~Active(t)

\* call k of triggerUpload reported a change made at that moment
ReportedChange(k) == trigCalls[k].state.lm = trigCalls[k].at

\* C16: once nothing is pending, every document whose change was reported
\* through triggerUpload is in the remote store as it is locally.
C16_ReportedChangeIsUploaded ==
    Quiescent
    => \A k \in 1..Len(trigCalls) :
          LET type == trigCalls[k].type
          IN  ReportedChange(k)
              => /\ Len(remote[type]) > 0
                 /\ remote[type][1].payload = local[type].payload

\* C17 as claimed: an uploadState that passes the guards starts at least
\* 5000 ms after the one that passed before it.
C17_UploadsSpaced ==
    lastPassed.gap = -1 \/ lastPassed.gap >= SYNC_COOLDOWN_MS

\* C17 amended: ... after the one that passed before it on the same page
\* load; the reload performFullSync makes after applying a remote notebook
\* starts the module, and the cooldown with it, afresh.
C17_UploadsSpacedOnOnePage ==
    lastPassed.gapHere = -1 \/ lastPassed.gapHere >= SYNC_COOLDOWN_MS

\* C17 witness: an uploadState has passed the guards exactly 5000 ms after
\* the one before it
C17_Witness ==
    lastPassed.gapHere = SYNC_COOLDOWN_MS /\ lastPassed.gap = SYNC_COOLDOWN_MS

\* a finished pass whose dashboard download was attempted and gave nothing
\* although the dashboard file is there: a request of findFile or downloadFile
\* failed
DashboardFailed(t) ==
    /\ PassDone(t)
    /\ "dashboard" \in tasks[t].tried \ tasks[t].skipped
    /\ tasks[t].dRemote = NoDoc
    /\ Len(remote["dashboard"]) > 0

\* what a pass does with the notebook document it downloaded
NotebookReconciled(t) ==
    (tasks[t].nRemote /= NoDoc /\ "notebook" \notin tasks[t].dirty)
    => IF tasks[t].nRemote.lm > tasks[t].nLocal.lm
       THEN /\ tasks[t].handed = {}
            /\ IF AbortedAtNotebook(t)
               THEN local["notebook"] = tasks[t].nLocal
               ELSE /\ local["notebook"] = tasks[t].nRemote
                    /\ "notebook" \in tasks[t].applied
       ELSE /\ local["notebook"] = tasks[t].nLocal
            /\ "notebook" \notin tasks[t].applied
            /\ "notebook" \in tasks[t].handed
                   <=> tasks[t].nLocal.lm > tasks[t].nRemote.lm
            /\ tasks[t].ups \subseteq tasks[t].handed

\* C21: when the dashboard document cannot be downloaded, a pass on a notebook
\* page still goes on to the notebook document and reconciles it as a pass
\* does whose dashboard download succeeded: remote newer is applied, local
\* newer is handed to uploadState, equally recent is left alone.
C21_NotebookIndependentOfDashboard ==
    \A t \in PassTasks :
        (DashboardFailed(t) /\ onNotebook)
        => /\ "notebook" \in tasks[t].tried
           /\ NotebookReconciled(t)

\* C21 witness: a pass on a notebook page lost its dashboard download and
\* applied the newer remote notebook document
C21_Witness ==
    \E t \in PassTasks :
        /\ DashboardFailed(t) /\ onNotebook
        /\ local["dashboard"] /= NoDoc
        /\ tasks[t].nRemote /= NoDoc
        /\ tasks[t].applied = {"notebook"}
        /\ local["notebook"] = tasks[t].nRemote

\* the same reconciliation is what a pass with a downloaded dashboard does
C21_NotebookAfterDashboard ==
    \A t \in PassTasks :
        (PassDone(t) /\ tasks[t].dRemote /= NoDoc) => NotebookReconciled(t)

\* C22: a pass whose downloadState answered null for a document leaves the
\* local record of that document alone: whenever a step changes a local record
\* and it is not the owner saving an edit, a pass holds a downloaded remote copy
\* of that document and the record is now that copy.
C22_NullLeavesLocal ==
    [][\A type \in Types :
          (local'[type] /= local[type] /\ edits' = edits)
          => \E t \in PassTasks :
                /\ RemoteRead(t, type)' /= NoDoc
                /\ type \in tasks'[t].applied
                /\ local'[type] = RemoteRead(t, type)']_vars

\* C22 witness: a finished pass got null for both documents, once at least
\* from a failed request, and both local records are there
C22_Witness ==
    \E t \in PassTasks :
        /\ PassDone(t) /\ tasks[t].tried = Types /\ tasks[t].netFail
        /\ \A type \in Types : RemoteRead(t, type) = NoDoc /\ local[type] /= NoDoc
        /\ Len(remote["notebook"]) > 0

\* C23: a pass that finds no remote file for a tracked document that has a
\* local record uploads the local record: with every request answered 2xx and
\* no edit meanwhile, the remote file exists once the pass is over.
C23_AbsentRemoteIsUploaded ==
    \A t \in PassTasks : \A type \in Types :
        ( /\ PassDone(t) /\ tasks[t].rv = "true"
          /\ type \in tasks[t].tried \ tasks[t].skipped
          /\ ~tasks[t].netFail /\ tasks[t].dirty = {}
          /\ RemoteRead(t, type) = NoDoc
          /\ local[type] /= NoDoc )
        => Len(remote[type]) > 0

\* C24: a pass reloads the page only after it downloaded a notebook document
\* strictly newer than the local record, stored it, and applyState was missing
\* or answered false: never when applyState answered true, when the copies are
\* equally recent, when the local one is newer, or for the dashboard alone.
C24_ReloadOnlyAsFallback ==
    \A t \in PassTasks :
        tasks[t].reloaded
        => /\ tasks[t].nRemote /= NoDoc
           /\ tasks[t].nRemote.lm > tasks[t].nLocal.lm
           /\ "notebook" \in tasks[t].applied
           /\ ~tasks[t].applyOk

\* C24 witness: applyState was there, answered false, and the page reloaded;
\* the dashboard had been applied in the same pass
C24_Witness ==
    \E t \in PassTasks :
        /\ tasks[t].reloaded /\ api = "apply" /\ ~tasks[t].applyOk
        /\ tasks[t].applied = Types
        /\ local["notebook"] = tasks[t].nRemote

\* C25, both envelopes missing: the pass downloaded a notebook document
\* without _syncMeta, found no local record, and is over
C25_NoEnvelopeWitness ==
    \E t \in PassTasks :
        /\ PassDone(t) /\ tasks[t].rv = "true" /\ tasks[t].dirty = {}
        /\ tasks[t].nRemote = Doc(2, 0) /\ tasks[t].nLocal = NoDoc
        /\ local["notebook"] = NoDoc

\* the other side: applyState answered true and the pass ended without reload
C24_NoReloadWitness ==
    \E t \in PassTasks :
        /\ PassDone(t) /\ tasks[t].applyOk /\ ~tasks[t].reloaded
        /\ "notebook" \in tasks[t].applied

\* C25: a pass that finds the local and the downloaded remote copy of a
\* tracked document equally recent (a missing envelope counts as 0) changes
\* neither copy and hands nothing to uploadState for it.
C25_TieChangesNothing ==
    \A t \in PassTasks : \A type \in Types :
        ( /\ PassDone(t) /\ RemoteRead(t, type) /= NoDoc
          /\ type \in tasks[t].tried /\ type \notin tasks[t].dirty
          /\ LocalRead(t, type).lm = RemoteRead(t, type).lm )
        => /\ local[type] = LocalRead(t, type)
           /\ FirstFile(S, type) = 1 /\ remote[type][1] = RemoteRead(t, type)
           /\ type \notin tasks[t].applied \cup tasks[t].handed \cup tasks[t].ups

\* C25 witness: both documents equally recent with different payloads, and
\* the pass is over
C25_Witness ==
    \E t \in PassTasks :
        /\ PassDone(t) /\ tasks[t].rv = "true" /\ tasks[t].dirty = {}
        /\ \A type \in Types :
              /\ RemoteRead(t, type) /= NoDoc /\ LocalRead(t, type) /= NoDoc
              /\ LocalRead(t, type).lm = RemoteRead(t, type).lm
              /\ LocalRead(t, type).payload /= RemoteRead(t, type).payload

\* C26: a lookup that failed is not taken for "no such file": uploadState
\* creates a new remote file (an upload without a file id) only when the
\* document has no remote file.
C26_FailedLookupIsFailure ==
    \A t \in PassTasks :
        (tasks[t].sub = "U_upload" /\ tasks[t].ufile = 0)
        => Len(remote[tasks[t].typ]) = 0

\* the queue holds exactly one entry of the type, with the given state
OneEntry(queue, type, state) ==
    /\ Cardinality({i \in 1..Len(queue) : queue[i].type = type}) = 1
    /\ \A i \in 1..Len(queue) : queue[i].type = type => queue[i].state = state

\* C27: an uploadState(type) that passed its guards while offline and found a
\* local state returns false with one entry of the type in the offline queue,
\* holding the state it read, with status offline and isSyncing false.
C27_OfflineUploadIsQueued ==
    [][\A t \in UploadTasks :
          (tasks[t].sub = "U_offsave" /\ Returns(t, "upl"))
          => /\ OneEntry(offlineQueue', tasks[t].typ, lastEnq[tasks[t].typ])
             /\ currentSyncStatus' = "offline"
             /\ ~isSyncing'
             /\ tasks'[t].rv = "false"]_vars

\* the step in which disableSync is called by task t
DisableCalled(t) ==
    /\ tasks[t].pc \in {"idle", "done"} /\ tasks'[t].proc = "dis"
    /\ tasks'[t].pc = "X_revoke" \/ Returns(t, "dis")

\* C28 as claimed: disableSync sends one revocation to the broker if a token
\* is cached and none otherwise, changes no local document, and returns with
\* enabled = false in memory and in storage, no cached token and status idle.
C28_DisableEndState ==
    [][\A t \in DisableTasks :
          /\ DisableCalled(t)
             => (tasks'[t].net = "drevoke" <=> cachedToken /= NoToken)
          /\ tasks'[t] /= tasks[t] => local' = local
          /\ Returns(t, "dis")
             => /\ ~syncSettings'.enabled /\ ~storedSettings'.enabled
                /\ cachedToken' = NoToken
                /\ currentSyncStatus' = "idle"]_vars

\* C28 amended: disableSync sets enabled = false in memory at once, and in
\* storage too if the extension context is valid (otherwise the stored
\* settings stay as they were); it sends one revocation if a token is cached
\* and none otherwise, changes no local document, and returns with no cached
\* token and status idle; while it waits for the revocation only an
\* enableSync whose token arrives turns enabled on again.
C28_DisableEndStateIfContextValid ==
    [][\A t \in DisableTasks :
          /\ DisableCalled(t)
             => /\ tasks'[t].net = "drevoke" <=> cachedToken /= NoToken
                /\ ~syncSettings'.enabled
                /\ IF ctxValid THEN ~storedSettings'.enabled
                               ELSE storedSettings' = storedSettings
          /\ tasks'[t] /= tasks[t] => local' = local
          /\ Returns(t, "dis")
             => /\ cachedToken' = NoToken
                /\ currentSyncStatus' = "idle"
          /\ ( /\ tasks[t].pc = "X_revoke" /\ tasks'[t].proc = "dis"
               /\ ~syncSettings.enabled /\ syncSettings'.enabled )
             => \E e \in EnableTasks :
                   tasks[e].pc = "E_token" /\ tasks'[e].tokenOk]_vars

\* C28 witness: disableSync has returned on a page that had uploaded with a
\* granted token: no token is left, sync is off in memory and in storage,
\* status idle, both local documents in place
C28_Witness ==
    \E t \in DisableTasks :
        /\ tasks[t].proc = "dis" /\ tasks[t].pc = "done"
        /\ ~syncSettings.enabled /\ ~storedSettings.enabled
        /\ cachedToken = NoToken /\ currentSyncStatus = "idle"
        /\ \A type \in Types : local[type] /= NoDoc
        /\ \E u \in UploadTasks : tasks[u].upOk /= {}

\* the revocation of disableSync in flight
C28_RevokingWitness ==
    \E t \in DisableTasks :
        /\ tasks[t].net = "drevoke" /\ cachedToken /= NoToken
        /\ ~syncSettings.enabled /\ ~storedSettings.enabled

\* the getAuthToken requests the broker has not answered yet
TokenRequests == {t \in TaskIds : tasks[t].net \in {"token", "etoken"}}

\* C29: at most one token request to the broker is outstanding at any time:
\* getAuthToken called while another getAuthToken awaits the broker sends no
\* second request.
C29_SingleFlightToken ==
    Cardinality(TokenRequests) <= 1

\* the step in which task t, idle before, is called
Called(t) == tasks[t].pc \in {"idle", "done"} /\ tasks'[t] /= tasks[t]

\* what a guarded call must leave alone
GuardedFrame ==
    UNCHANGED <<currentSyncStatus, isSyncing, lastSyncAttempt, offlineQueue,
                storedQueue, syncSettings, storedSettings, local, remote>>

\* C30: uploadState called while sync is off, while isSyncing is set, or less
\* than 5 s after lastSyncAttempt returns false, and downloadState called while
\* sync is off or isSyncing is set returns null; either leaves status,
\* isSyncing, lastSyncAttempt, the offline queue, the settings and every local
\* and remote document as they were.
C30_GuardedCallsChangeNothing ==
    [][/\ \A t \in UploadTasks :
            ( /\ Called(t)
              /\ \/ ~syncSettings.enabled \/ isSyncing
                 \/ now - lastSyncAttempt < SYNC_COOLDOWN_MS )
            => /\ tasks'[t].pc = "done" /\ tasks'[t].rv = "false"
               /\ GuardedFrame
       /\ \A t \in DownloadTasks :
            (Called(t) /\ (~syncSettings.enabled \/ isSyncing))
            => /\ tasks'[t].pc = "done" /\ tasks'[t].rv = "null"
               /\ GuardedFrame]_vars

\* C30 witness: uploadState has returned false without passing its guards
\* while a downloadState holds isSyncing, sync on
C30_Witness ==
    \E t \in UploadTasks : \E g \in DownloadTasks :
        /\ tasks[t].proc = "upl" /\ tasks[t].pc = "done"
        /\ tasks[t].rv = "false" /\ tasks[t].ups = {}
        /\ tasks[g].net = "fetch" /\ isSyncing
        /\ syncSettings.enabled

\* the same for downloadState, turned away by an uploadState in flight
C30_DownloadWitness ==
    \E t \in UploadTasks : \E g \in DownloadTasks :
        /\ tasks[g].proc = "dwn" /\ tasks[g].pc = "done"
        /\ tasks[g].rv = "null" /\ tasks[g].skipped /= {}
        /\ tasks[t].net = "fetch" /\ isSyncing /\ isOnline
        /\ syncSettings.enabled

\* and uploadState turned away by the cooldown alone
C30_CooldownWitness ==
    \E t \in UploadTasks :
        /\ tasks[t].proc = "upl" /\ tasks[t].pc = "done"
        /\ tasks[t].rv = "false" /\ tasks[t].ups = {}
        /\ syncSettings.enabled /\ ~isSyncing
        /\ lastSyncAttempt > 0 /\ now - lastSyncAttempt < SYNC_COOLDOWN_MS
        /\ \A g \in DownloadTasks : tasks[g].pc = "idle"

\* task t takes a step of its own (a page reload by another task empties it)
Moved(t) == tasks'[t] /= tasks[t] /\ tasks'[t].proc /= "none"

\* C31: getAuthToken(false) with a cached token answers from the cache, no
\* broker request is sent and the cache is left alone; a broker request goes
\* out only without a cached token or for an interactive call; its answer
\* caches the token and the request goes on with it, or clears the cache and
\* the request fails, whatever was cached before.
C31_TokenFromCacheOrBroker ==
    [][/\ \A t \in UploadTasks \cup EnableTasks :
            /\ (Moved(t) /\ tasks'[t].net = "token")
               => (cachedToken' = NoToken \/ tasks'[t].interactive)
            /\ ( /\ Moved(t) /\ tasks[t].net \notin {"token", "etoken"}
                 /\ tasks'[t].net = "fetch" )
               => (cachedToken /= NoToken /\ cachedToken' = cachedToken)
            /\ (Moved(t) /\ tasks[t].net = "token")
               => IF tasks'[t].net = "fetch"
                  THEN cachedToken' = Token /\ tasks'[t].nfetch = tasks[t].nfetch + 1
                  ELSE cachedToken' = NoToken /\ tasks'[t].netFail
       /\ \A e \in EnableTasks :
            (Moved(e) /\ tasks[e].net = "etoken")
            => IF tasks'[e].tokenOk
               THEN cachedToken' = Token
               ELSE cachedToken' = NoToken /\ tasks'[e].rv = "false"]_vars

\* C31 witness: the second request of an upload went out with the token the
\* first one had cached
C31_Witness ==
    \E t \in UploadTasks :
        /\ tasks[t].sub = "U_upload" /\ tasks[t].net = "fetch"
        /\ ~tasks[t].retry /\ tasks[t].nfetch = 1 /\ cachedToken = Token

\* the broker refused enableSync although a token was cached when it asked:
\* the cache is empty afterwards
C31_ClearedWitness ==
    \E e \in EnableTasks : \E t \in UploadTasks :
        /\ tasks[e].pc = "done" /\ tasks[e].rv = "false" /\ ~tasks[e].tokenOk
        /\ tasks[t].net = "fetch" /\ ~tasks[t].retry
        /\ cachedToken = NoToken

\* the request of task t ended in this step on a 403: it failed after a fetch
\* was sent, and not on a second 401 (the store answers 200, 401 or 403)
Forbidden(t) ==
    /\ lastReq'.task = t /\ ~lastReq'.ok
    /\ lastReq'.nfetch >= 1 /\ lastReq'.n401 < 2

\* C32: a 403, on the first attempt or on the retry after a 401, ends the
\* request without another fetch, and the uploadState or downloadState that
\* made the request returns false / null in the same step.
C32_ForbiddenEndsAttempt ==
    [][\A t \in UploadTasks \cup DownloadTasks :
          Forbidden(t)
          => /\ lastReq'.nfetch = lastReq'.n401 + 1
             /\ tasks'[t].pc = "done"
             /\ tasks'[t].rv \in {"false", "null"}]_vars

\* an auto-clear of the kind is pending, due within its delay
ClearPending(kind, delay) ==
    \E tm \in clears : tm.kind = kind /\ tm.due <= now + delay

\* C33: status success goes back to idle within the fixed delay unless another
\* status is set first, and status offline goes back to idle once the device
\* is online again: whenever the status is success its clear is pending and due
\* within 3 s, whenever it is offline the poller that clears it is pending,
\* and time does not pass a due clear.
C33_StatusAutoClears ==
    /\ currentSyncStatus = "success" => ClearPending("success", STATUS_CLEAR_MS)
    /\ currentSyncStatus = "offline" => ClearPending("offline", ONLINE_POLL_MS)
    /\ \A tm \in clears : now <= tm.due

\* C40: an auto-clear that writes idle overwrites only the status it was armed
\* for: the success timeout only success, the offline poller only offline
\* (writing idle over idle changes nothing); never syncing, error, or for the
\* poller success, set since.
C40_ClearOnlyOwnStatus ==
    fired.over \in {"none", "idle", fired.kind}

\* the invocations inside the try block of uploadState or downloadState
Holders ==
    {t \in TaskIds : tasks[t].sub \in {"U_find", "U_upload", "U_get", "U_offget",
                                        "U_offsave", "D_find", "D_download"}}

\* C34: at most one uploadState or downloadState invocation is between
\* isSyncing = true and its finally block, and the flag is set exactly while
\* one is: a call turned away by the guard does not clear it.
C34_IsSyncingIsMutex ==
    /\ Cardinality(Holders) <= 1
    /\ isSyncing <=> Holders /= {}

\* C34 witness: an upload holds the flag in the middle of its request after a
\* download was turned away by the guard
C34_Witness ==
    \E t \in UploadTasks : \E g \in DownloadTasks :
        /\ Holders = {t} /\ isSyncing /\ tasks[t].sub = "U_upload"
        /\ tasks[g].pc = "done" /\ tasks[g].rv = "null"
        /\ tasks[g].typ \in tasks[g].skipped

\* C35: when every awaited call completes, an invocation of uploadState or
\* downloadState that set isSyncing resets it, whichever way it ends: the
\* flag is never left set.
C35_FlagAlwaysReset == isSyncing ~> ~isSyncing

\* C35 witness: an upload whose request failed has ended and the flag is clear
C35_Witness ==
    \E t \in UploadTasks :
        /\ tasks[t].proc = "upl" /\ tasks[t].pc = "done"
        /\ tasks[t].ufailed /\ tasks[t].rv = "false"
        /\ currentSyncStatus = "error" /\ ~isSyncing

\* C36: the remote store holds at most one document per document name,
\* whatever uploads ran and however their lookups ended.
C36_OneRemoteFilePerName == \A type \in Types : Len(remote[type]) <= 1

\* the timeout for the type set by call i or a later one is pending, or
\* its callback has called uploadState(type)
Served(i, type) ==
    \/ \E tm \in timers : tm.type = type /\ tm.call >= i
    \/ \E j \in 1..Len(timerCalls) :
          timerCalls[j].type = type /\ timerCalls[j].call >= i

\* C37: a triggerUpload for one type followed within the debounce window by
\* a triggerUpload for the other type leaves the first type's upload in
\* place: for both types the timeout is pending or uploadState was called.
C37_OtherTypeNotCancelled ==
    \A i \in 1..(Len(trigCalls) - 1) :
        (/\ trigCalls[i].type /= trigCalls[i + 1].type
         /\ trigCalls[i + 1].at - trigCalls[i].at < SYNC_DEBOUNCE_MS)
        => /\ Served(i, trigCalls[i].type)
           /\ Served(i + 1, trigCalls[i + 1].type)

\* the entries a replay took over and has not uploaded: those still to be
\* replayed, the one being replayed, and those whose upload answered false
NotReplayed(t) ==
    {tasks[t].q[i] : i \in 1..Len(tasks[t].q)} \cup tasks[t].failedOps

\* C38: an entry leaves the persisted offline queue only after its replay
\* upload has succeeded: while processOfflineQueue runs and after it has
\* ended, what a reload would read back holds every entry not yet uploaded.
C38_PersistedUntilReplayed ==
    \A t \in QueueTasks :
        tasks[t].proc = "poq"
        => \A op \in NotReplayed(t) :
              \E j \in 1..Len(storedQueue) : storedQueue[j] = op

\* C39: whenever sync is disabled and no operation is in flight, no token is
\* cached: an operation suspended across disableSync does not cache a token
\* again after the revocation.
C39_NoTokenWhileDisabled ==
    (~syncSettings.enabled /\ \A t \in TaskIds : Free(t))
    => cachedToken = NoToken

====
